---- MODULE Spec2Model ----
(***************************************************************************)
(* The screenshot-to-LLM pipeline of the Interview Assistant:               *)
(* ProcessingHelper (electron/ProcessingHelper.ts) with its collaborators.  *)
(*                                                                          *)
(* The repository holds two revisions of ProcessingHelper:                  *)
(*   "base"  - src/electron/ProcessingHelper.ts                             *)
(*   "chain" - src/unnamed/part_003, which adds the persisted debug state   *)
(*             (debugState.json) and processFollowUp.                       *)
(* The variable rev says which revision is running; it never changes.       *)
(*                                                                          *)
(* An invocation of processScreenshots / processFollowUp is an async        *)
(* function.  It runs in three atomic steps, cut at its suspension points:  *)
(*   start    - the synchronous prefix up to `await Promise.all(...)`       *)
(*   helper   - from the screenshots being read up to                       *)
(*              `await this.aiClient.chat.completions.create(...)`          *)
(*   response - from the network reply (or failure) to the end of the       *)
(*              `finally` block.                                            *)
(* calls[c] holds the position of the invocation occupying slot c.  The    *)
(* AbortController created by an invocation is identified by its slot.      *)
(*                                                                          *)
(* Environment assumptions: the main window is created or closed only      *)
(* while no invocation is pending, and no invocation starts on a destroyed  *)
(* window; reads and writes of debugState.json succeed; config.language is  *)
(* set, so that `await this.getLanguage()` answers from the configuration   *)
(* and lets no other operation in.                                          *)
(***************************************************************************)
EXTENDS Integers, Sequences, FiniteSets, TLC

\* ------------------------------------------------------------------ bounds
MaxCalls == 2        \* invocations that may be pending at once
MaxQueue == 1        \* capacity of each screenshot queue
MaxChain == 2        \* longest debug-state chain explored

Calls == 1..MaxCalls
\* Screenshot file names: one more than a queue holds, so that a push onto a
\* full queue has a fresh name to use.
Paths == 1..(MaxQueue + 1)

\* ------------------------------------------------------------- value sets
NoToken == 0                          \* a null AbortController field
NULL == "null"                        \* deps.getProblemInfo() === null
INFO == "info"                        \* a ProblemInfo object
Codes == {"", "code"}                 \* code extracted from a reply
Views == {"queue", "solutions"}
Revs == {"base", "chain"}

\* What the upstream call produces: a reply (its extracted code), or a
\* failure with an HTTP status (0: no status, e.g. a network error or a
\* reply without choices).
Replies == {[ok |-> TRUE, code |-> c, status |-> 200, message |-> ""] : c \in Codes}
Failures ==
  {[ok |-> FALSE, code |-> "", status |-> s, message |-> "Connection error."] :
     s \in {401, 429, 500, 503, 0}}
  \cup {[ok |-> FALSE, code |-> "", status |-> 0,
         message |-> "OpenAI request failed"]}
Responses == Replies \cup Failures

VARIABLES
  rev,                \* which revision of ProcessingHelper runs
  mainWindow,         \* deps.getMainWindow(): "none" | "live" | "destroyed"
  config,             \* the persisted configuration (aiApiKey, aiEndpoint)
  aiClient,           \* this.aiClient !== null
  view,               \* deps.getView()
  screenshotQueue,    \* screenshotHelper.getScreenshotQueue()
  extraScreenshotQueue,
  fileState,          \* path -> "absent" | "ok": the file behind a path
  currentProcessingAbortController,
  currentExtraProcessingAbortController,
  aborted,            \* controllers on which abort() was called
  problemInfo,        \* the record behind deps.get/setProblemInfo
  hasDebugged,        \* the flag behind deps.setHasDebugged
  debugState,         \* debugState.json: [exists, entries]
  calls,              \* slot -> the pending invocation in it
  emitted,            \* events sent to the window by the last step
  lastOp,             \* the operation the last step ran, and its outcome
  upstreamError,      \* the error a helper's catch block is handed
  result,             \* the tagged result the helper returns for it
  responseText,       \* response.choices[0].message.content, by sections
  solutionData,       \* the result and record parsed out of responseText
  configFile,         \* the file at ConfigHelper's configPath
  returned,           \* what the last ConfigHelper operation returned
  directory,          \* the pages directory: its subfolders as enumerated
  pages,              \* LocalPages: the pages state
  currentPageIndex,   \* LocalPages: the currentPageIndex state
  loading,            \* LocalPages: the loading state
  pagesError,         \* LocalPages: the error state
  listenerLength      \* pages.length as the navigate-page listener holds it

vars == <<rev, mainWindow, config, aiClient, view, screenshotQueue,
          extraScreenshotQueue, fileState, currentProcessingAbortController,
          currentExtraProcessingAbortController, aborted, problemInfo,
          hasDebugged, debugState, calls, emitted, lastOp,
          upstreamError, result, responseText, solutionData,
          configFile, returned,
          directory, pages, currentPageIndex, loading, pagesError, listenerLength>>

\* Grouped for UNCHANGED clauses.
queueVars == <<screenshotQueue, extraScreenshotQueue, fileState>>
tokenVars == <<currentProcessingAbortController,
               currentExtraProcessingAbortController, aborted>>
recordVars == <<problemInfo, hasDebugged, debugState>>
\* The variables of the specifications of single functions (SpecErrors):
\* no step of the pipeline changes them.
errorVars == <<upstreamError, result>>
parseVars == <<responseText, solutionData>>
helperVars == <<configFile, returned>>
pageVars ==
  <<directory, pages, currentPageIndex, loading, pagesError, listenerLength>>
functionVars == <<errorVars, parseVars, helperVars, pageVars>>

Free == [kind |-> "none", pc |-> "free", info |-> NULL]
NoResult == [mode |-> "none", success |-> TRUE, error |-> ""]
NoError == [ok |-> TRUE, code |-> "", status |-> 200, message |-> ""]
\* No catch block is at work.
errorsAtRest == upstreamError = NoError /\ result = NoResult
NoSolution == [variant |-> "none", success |-> FALSE]
\* No reply is being parsed.
parseAtRest == responseText = <<>> /\ solutionData = NoSolution
\* No ConfigHelper is under study.
helperAtRest == configFile = <<>> /\ returned = <<>>
\* No pages viewer is mounted.
pagesAtRest ==
  /\ directory = <<>>
  /\ pages = <<>>
  /\ currentPageIndex = 0
  /\ loading = FALSE
  /\ pagesError = NULL
  /\ listenerLength = 0
NoFile == [exists |-> FALSE, entries |-> <<>>]
\* lastOp: the ProcessingHelper operation the last step ran ("none" for a
\* step of the surroundings), how it ended, and the code extracted from the
\* reply it handled ("" when there is none).
Op(name, outcome) == [op |-> name, outcome |-> outcome, code |-> ""]
OpReply(name, outcome, code) == [op |-> name, outcome |-> outcome, code |-> code]

\* ------------------------------------------------------------ ConfigHelper
\* The configurations explored: no key, a key without an endpoint, both.
Configs == {[aiApiKey |-> "", aiEndpoint |-> "url"],
            [aiApiKey |-> "sk", aiEndpoint |-> ""],
            [aiApiKey |-> "sk", aiEndpoint |-> "url"]}

loadConfig == config

\* ------------------------------------------------------ ProcessingHelper
\* The client initializeAIClients leaves in this.aiClient.
initializeAIClients_AlwaysClient == TRUE
initializeAIClients ==
  loadConfig.aiApiKey # "" /\ loadConfig.aiEndpoint # ""

\* The guard `!config.aiApiKey || !this.aiClient` followed by the
\* re-initialisation: the client the invocation goes on with.
verifiedClient ==
  IF loadConfig.aiApiKey = "" \/ ~aiClient THEN initializeAIClients ELSE aiClient

existsSync(p) == fileState[p] # "absent"

\* queue.filter(path => fs.existsSync(path))
existingScreenshots_NoFilter(queue) == queue
existingScreenshots(queue) == SelectSeq(queue, existsSync)

\* loadDebugState(): null when the file is absent.
loadDebugState == debugState
hasPreviousSolution == loadDebugState.exists /\ Len(loadDebugState.entries) > 0

Entry(info, code) == [problemInfo |-> info, code |-> code]

\* saveDebugState: the file holds exactly the new entry.
saveDebugState(entry) == [exists |-> TRUE, entries |-> <<entry>>]

\* appendDebugState: the entry is pushed onto the entries read from the file.
appendDebugState(entry) ==
  [exists |-> TRUE, entries |-> Append(loadDebugState.entries, entry)]

\* clearDebugState: the file is unlinked.
clearDebugState_Keep == debugState
clearDebugState == NoFile

Pending(c) == calls[c].pc # "free"
Idle == \A c \in Calls : ~Pending(c)

TypeOK ==
  /\ rev \in Revs
  /\ mainWindow \in {"none", "live", "destroyed"}
  /\ config \in Configs
  /\ aiClient \in BOOLEAN
  /\ view \in Views
  /\ currentProcessingAbortController \in Calls \cup {NoToken}
  /\ currentExtraProcessingAbortController \in Calls \cup {NoToken}
  /\ aborted \subseteq Calls
  /\ problemInfo \in {NULL, INFO}
  /\ hasDebugged \in BOOLEAN
  /\ Len(screenshotQueue) <= MaxQueue
  /\ Len(extraScreenshotQueue) <= MaxQueue
  /\ Len(debugState.entries) <= MaxChain

\* The state after construction.  The configuration file and (in the chain
\* revision) debugState.json persist from earlier runs of the application.
Init ==
  /\ rev \in Revs
  /\ mainWindow \in {"none", "live"}
  /\ config \in Configs
  /\ aiClient = initializeAIClients
  /\ view = "queue"
  /\ screenshotQueue = <<>>
  /\ extraScreenshotQueue = <<>>
  /\ fileState = [p \in Paths |-> "absent"]
  /\ currentProcessingAbortController = NoToken
  /\ currentExtraProcessingAbortController = NoToken
  /\ aborted = {}
  /\ problemInfo = NULL
  /\ hasDebugged = FALSE
  /\ debugState \in
       IF rev = "chain"
       THEN {NoFile, saveDebugState(Entry(INFO, "code"))}
       ELSE {NoFile}
  /\ calls = [c \in Calls |-> Free]
  /\ emitted = <<>>
  /\ lastOp = Op("none", "none")
  /\ errorsAtRest
  /\ parseAtRest
  /\ pagesAtRest
  /\ helperAtRest


\* -------------------------------------------------- processScreenshots
\* How the synchronous prefix of processScreenshots ends.
startOutcome ==
  IF mainWindow = "none" THEN "no-window"
  ELSE IF ~verifiedClient THEN "api-key-invalid"
  ELSE IF view = "queue"
       THEN IF existingScreenshots(screenshotQueue) = <<>>
            THEN "no-screenshots" ELSE "initial"
       ELSE IF existingScreenshots(extraScreenshotQueue) = <<>>
            THEN "no-screenshots" ELSE "debug"

\* processScreenshots up to its first suspension, run in slot c.
processScreenshotsStart(c) ==
  /\ aiClient' = IF mainWindow = "none" THEN aiClient ELSE verifiedClient
  /\ emitted' =
       CASE startOutcome = "no-window" -> <<>>
         [] startOutcome = "api-key-invalid" -> <<"api-key-invalid">>
         [] startOutcome = "no-screenshots" /\ view = "queue" ->
              <<"initial-start", "no-screenshots">>
         [] startOutcome = "no-screenshots" /\ view # "queue" ->
              <<"no-screenshots">>
         [] startOutcome = "initial" -> <<"initial-start">>
         [] startOutcome = "debug" -> <<"debug-start">>
  /\ currentProcessingAbortController' =
       IF startOutcome = "initial" THEN c ELSE currentProcessingAbortController
  /\ currentExtraProcessingAbortController' =
       IF startOutcome = "debug" THEN c
       ELSE currentExtraProcessingAbortController
  /\ calls' =
       CASE startOutcome = "initial" ->
              [calls EXCEPT ![c] =
                 [kind |-> "initial", pc |-> "reading", info |-> NULL]]
         [] startOutcome = "debug" ->
              [calls EXCEPT ![c] =
                 [kind |-> "debug", pc |-> "reading", info |-> NULL]]
         [] OTHER -> calls
  /\ UNCHANGED <<functionVars, rev, mainWindow, config, view, queueVars, aborted, recordVars>>

processScreenshots(c) ==
  /\ ~Pending(c)
  /\ mainWindow # "destroyed"
  /\ processScreenshotsStart(c)
  /\ lastOp' = Op("processScreenshots", startOutcome)

\* processFollowUp (chain revision) up to its first suspension.
followUpOutcome ==
  IF mainWindow = "none" THEN "no-window"
  ELSE IF ~verifiedClient THEN "api-key-invalid"
  ELSE IF ~hasPreviousSolution THEN "fallback"
  ELSE IF existingScreenshots(extraScreenshotQueue) = <<>>
       THEN "no-screenshots" ELSE "followup"

processFollowUp(c) ==
  /\ rev = "chain"
  /\ ~Pending(c)
  /\ mainWindow # "destroyed"
  /\ IF followUpOutcome = "fallback"
     THEN /\ processScreenshotsStart(c)
          /\ lastOp' = Op("processFollowUp", startOutcome)
     ELSE /\ aiClient' = IF mainWindow = "none" THEN aiClient ELSE verifiedClient
          /\ emitted' =
               CASE followUpOutcome = "no-window" -> <<>>
                 [] followUpOutcome = "api-key-invalid" -> <<"api-key-invalid">>
                 [] followUpOutcome = "no-screenshots" -> <<"no-screenshots">>
                 [] followUpOutcome = "followup" -> <<"debug-start">>
          /\ currentExtraProcessingAbortController' =
               IF followUpOutcome = "followup" THEN c
               ELSE currentExtraProcessingAbortController
          /\ calls' =
               IF followUpOutcome = "followup"
               THEN [calls EXCEPT ![c] =
                       [kind |-> "followup", pc |-> "reading", info |-> NULL]]
               ELSE calls
          /\ lastOp' = Op("processFollowUp", followUpOutcome)
          /\ UNCHANGED <<functionVars, rev, mainWindow, config, view, queueVars,
                         currentProcessingAbortController, aborted, recordVars>>


\* ---------------------------------------------- the helpers, up to the call
\* Leaving the try/finally of an invocation: its slot is released.
release_Never(c) == calls
release(c) == [calls EXCEPT ![c] = Free]

\* The message of a failed result, by the status of the upstream failure.
errorMessage(r) ==
  CASE r.status = 401 -> "Invalid API key. Please check your settings."
    [] r.status = 429 ->
         "API rate limit exceeded or insufficient credits. Please try again later."
    [] r.status = 500 -> "Server error. Please try again later."
    [] OTHER -> IF r.message = ""
                THEN "Failed to process screenshots. Please try again."
                ELSE r.message

\* The message of a failed debug result: the catch block of
\* processExtraScreenshotsHelper looks at no status.
debugErrorMessage(r) ==
  IF r.message = "" THEN "Failed to process debug request" ELSE r.message

NotConfiguredMessage ==
  "AI API key not configured or invalid. Please check your settings."

\* result.error?.includes("API Key") || result.error?.includes("OpenAI"):
\* of the messages above only the upstream one holds either substring (the
\* helper's own messages spell "API key").
includesApiKeyOrOpenAI(message) == message = "OpenAI request failed"

\* The event processScreenshots sends for a failed initial result.
initialFailureEvent(message) ==
  IF rev = "base" /\ includesApiKeyOrOpenAI(message)
  THEN "api-key-invalid" ELSE "initial-solution-error"

\* processing-status is sent by the base revision only.
status == IF rev = "base" THEN <<"processing-status">> ELSE <<>>

\* The client processScreenshotsHelper / processExtraScreenshotsHelper go
\* on with: `if (!this.aiClient) this.initializeAIClients()`.
helperClient == IF ~aiClient THEN initializeAIClients ELSE aiClient

\* From the screenshots being read to the upstream call of an initial solve.
\* loaded: whether any read yields data (`validScreenshots.length > 0`); a
\* read fails when the file was removed or is unreadable by then.
processScreenshotsHelper(c, loaded) ==
  /\ calls[c].pc = "reading"
  /\ calls[c].kind = "initial"
  /\ IF ~loaded
     THEN \* throw new Error("Failed to load screenshot data"); catch; finally
          /\ emitted' = <<"initial-solution-error", "initial-solution-error">>
          /\ view' = "queue"
          /\ currentProcessingAbortController' = NoToken
          /\ calls' = release(c)
          /\ aborted' = aborted \ {c}
          /\ lastOp' = Op("processScreenshotsHelper", "threw")
          /\ UNCHANGED aiClient
     ELSE /\ aiClient' = helperClient
          /\ IF ~helperClient
             THEN /\ emitted' = status \o <<initialFailureEvent(NotConfiguredMessage)>>
                  /\ view' = "queue"
                  /\ currentProcessingAbortController' = NoToken
                  /\ calls' = release(c)
                  /\ aborted' = aborted \ {c}
                  /\ lastOp' = Op("processScreenshotsHelper", "failure")
             ELSE /\ emitted' = status
                  /\ calls' = [calls EXCEPT ![c].pc = "network"]
                  /\ lastOp' = Op("processScreenshotsHelper", "request")
                  /\ UNCHANGED <<view, currentProcessingAbortController, aborted>>
  /\ UNCHANGED <<functionVars, rev, mainWindow, config, queueVars,
                 currentExtraProcessingAbortController, recordVars>>

\* The problem info processExtraScreenshotsHelper works with: the latest
\* entry of the debug state when there is one (chain revision), else the
\* stored problem info.
priorProblemInfo ==
  IF rev = "chain" /\ hasPreviousSolution
  THEN loadDebugState.entries[Len(loadDebugState.entries)].problemInfo
  ELSE problemInfo

\* `if (!problemInfo) throw new Error("No problem info available")`
hasProblemInfo_Unchecked == TRUE
hasProblemInfo == priorProblemInfo # NULL

\* From the screenshots being read to the upstream call of a debug or
\* follow-up request.
processExtraScreenshotsHelper(c, loaded) ==
  /\ calls[c].pc = "reading"
  /\ calls[c].kind \in {"debug", "followup"}
  /\ IF ~loaded
     THEN /\ emitted' = <<"debug-error">>
          /\ lastOp' = Op("processExtraScreenshotsHelper", "threw")
          /\ UNCHANGED aiClient
     ELSE IF ~hasProblemInfo
     THEN /\ emitted' = <<"debug-error">>
          /\ lastOp' = Op("processExtraScreenshotsHelper", "no-problem-info")
          /\ UNCHANGED aiClient
     ELSE /\ aiClient' = helperClient
          /\ IF ~helperClient
             THEN /\ emitted' = status \o <<"debug-error">>
                  /\ lastOp' = Op("processExtraScreenshotsHelper", "failure")
             ELSE /\ emitted' = status \o status
                  /\ lastOp' = Op("processExtraScreenshotsHelper", "request")
  /\ IF lastOp'.outcome = "request"
     THEN /\ calls' = [calls EXCEPT ![c].pc = "network",
                                    ![c].info = priorProblemInfo]
          /\ UNCHANGED <<currentExtraProcessingAbortController, aborted>>
     ELSE /\ calls' = release(c)
          /\ currentExtraProcessingAbortController' = NoToken
          /\ aborted' = aborted \ {c}
  /\ UNCHANGED <<functionVars, rev, mainWindow, config, view, queueVars,
                 currentProcessingAbortController, recordVars>>


\* ------------------------------------------------- the upstream responses
\* screenshotHelper.clearExtraScreenshotQueue(): the auxiliary queue is
\* emptied and its backing files are deleted.
InSeq(p, q) == \E i \in 1..Len(q) : q[i] = p
filesAfterClear(queue) ==
  [p \in Paths |-> IF InSeq(p, queue) THEN "absent" ELSE fileState[p]]

\* The record an initial solve stores: the base revision stores the local
\* `problemInfo`, which is still null; the chain revision stores the
\* extracted problem info.
solvedProblemInfo == IF rev = "base" THEN NULL ELSE INFO

\* The view processScreenshots sets once the helper has returned.
viewAfterSolve_Solutions(success) == "solutions"
viewAfterSolve(success) == IF success THEN "solutions" ELSE "queue"

\* The response to the upstream call of an initial solve arrives: the rest
\* of processScreenshotsHelper and of processScreenshots.
solveResponse(c, r) ==
  /\ calls[c].pc = "network"
  /\ calls[c].kind = "initial"
  /\ IF r.ok
     THEN /\ debugState' = IF rev = "chain"
                           THEN saveDebugState(Entry(INFO, r.code))
                           ELSE debugState
          /\ problemInfo' = solvedProblemInfo
          /\ extraScreenshotQueue' = <<>>
          /\ fileState' = filesAfterClear(extraScreenshotQueue)
          /\ emitted' = status \o <<"solution-success", "solution-success">>
          /\ view' = viewAfterSolve(TRUE)
          /\ lastOp' = OpReply("solveResponse", "success", r.code)
     ELSE /\ emitted' = <<initialFailureEvent(errorMessage(r))>>
          /\ view' = viewAfterSolve(FALSE)
          /\ lastOp' = Op("solveResponse", "failure")
          /\ UNCHANGED <<debugState, problemInfo, extraScreenshotQueue, fileState>>
  /\ currentProcessingAbortController' = NoToken
  /\ calls' = release(c)
  /\ aborted' = aborted \ {c}
  /\ UNCHANGED <<functionVars, rev, mainWindow, config, aiClient, screenshotQueue,
                 currentExtraProcessingAbortController, hasDebugged>>

\* `if (isFollowUp && extractedCode)`: a follow-up reply is appended to the
\* debug state when code was extracted from it.
appendsEntry_AnyReply(c, r) == calls[c].kind = "followup"
appendsEntry(c, r) == calls[c].kind = "followup" /\ r.code # ""

\* `if (result.success) { this.deps.setHasDebugged(true) ... }`: the flag
\* after a debug or follow-up result.
debuggedAfter_Always(ok) == TRUE
debuggedAfter(ok) == IF ok THEN TRUE ELSE hasDebugged

\* The response to the upstream call of a debug or follow-up request
\* arrives: the rest of processExtraScreenshotsHelper and of its caller.
debugResponse(c, r) ==
  /\ calls[c].pc = "network"
  /\ calls[c].kind \in {"debug", "followup"}
  /\ IF r.ok
     THEN /\ appendsEntry(c, r) => Len(loadDebugState.entries) < MaxChain
          /\ debugState' = IF appendsEntry(c, r)
                           THEN appendDebugState(Entry(calls[c].info, r.code))
                           ELSE debugState
          /\ hasDebugged' = debuggedAfter(TRUE)
          /\ emitted' = status \o <<"debug-success">>
          /\ lastOp' = OpReply("debugResponse", "success", r.code)
     ELSE /\ hasDebugged' = debuggedAfter(FALSE)
          /\ emitted' = <<"debug-error">>
          /\ lastOp' = Op("debugResponse", "failure")
          /\ UNCHANGED debugState
  /\ currentExtraProcessingAbortController' = NoToken
  /\ calls' = release(c)
  /\ aborted' = aborted \ {c}
  /\ UNCHANGED <<functionVars, rev, mainWindow, config, aiClient, view, queueVars,
                 currentProcessingAbortController, problemInfo>>

\* ------------------------------------------------- cancelOngoingRequests
wasCancelled ==
  \/ currentProcessingAbortController # NoToken
  \/ currentExtraProcessingAbortController # NoToken

cancelOngoingRequests ==
  /\ aborted' = aborted \cup ({currentProcessingAbortController,
                                currentExtraProcessingAbortController}
                               \ {NoToken})
  /\ currentProcessingAbortController' = NoToken
  /\ currentExtraProcessingAbortController' = NoToken
  /\ hasDebugged' = FALSE
  /\ problemInfo' = NULL
  /\ debugState' = IF rev = "chain" THEN clearDebugState ELSE debugState
  /\ emitted' = IF wasCancelled /\ mainWindow = "live"
                THEN <<"no-screenshots">> ELSE <<>>
  /\ lastOp' = Op("cancelOngoingRequests",
                  IF wasCancelled THEN "cancelled" ELSE "nothing")
  /\ UNCHANGED <<functionVars, rev, mainWindow, config, aiClient, view, queueVars, calls>>

\* ------------------------------------------------------------ ConfigHelper
\* configHelper.on('config-updated', () => this.initializeAIClients()): the
\* client once the listener has run, from the configuration just saved.
onConfigUpdated_NoListener == aiClient
onConfigUpdated == initializeAIClients'

\* updateConfig(updates): the configuration merged with the updates
\* (newConfig) is saved and 'config-updated' makes ProcessingHelper
\* re-initialise its client.
updateConfig(newConfig) ==
  /\ config' = newConfig
  /\ config' # config
  /\ aiClient' = onConfigUpdated
  /\ emitted' = <<>>
  /\ lastOp' = Op("none", "none")
  /\ UNCHANGED <<functionVars, rev, mainWindow, view, queueVars, tokenVars, recordVars, calls>>

\* ------------------------------------------------------- the surroundings
Referenced(p) == InSeq(p, screenshotQueue) \/ InSeq(p, extraScreenshotQueue)

\* push(path): appended; beyond the capacity the oldest entry is removed
\* and its backing file deleted.
pushTo_NoEviction(queue, p, cap) == Append(queue, p)
\* push(path) on a queue of the given capacity.
pushTo(queue, p, cap) ==
  IF Len(queue) + 1 > cap THEN Tail(Append(queue, p)) ELSE Append(queue, p)
evictedFrom_None(queue, cap) == {}
\* The entry push(path) removes, whose backing file it deletes.
evictedFrom(queue, cap) ==
  IF Len(queue) + 1 > cap THEN {Head(queue)} ELSE {}
push(queue, p) == pushTo(queue, p, MaxQueue)
evicted(queue) == evictedFrom(queue, MaxQueue)

\* A screenshot is taken: it goes to the queue the current view selects.
takeScreenshot(p) ==
  /\ ~Referenced(p)
  /\ fileState[p] = "absent"
  /\ LET target == IF view = "queue" THEN screenshotQueue ELSE extraScreenshotQueue
     IN /\ fileState' = [q \in Paths |->
                           IF q = p THEN "ok"
                           ELSE IF q \in evicted(target) THEN "absent"
                           ELSE fileState[q]]
        /\ IF view = "queue"
           THEN screenshotQueue' = push(screenshotQueue, p)
                /\ UNCHANGED extraScreenshotQueue
           ELSE extraScreenshotQueue' = push(extraScreenshotQueue, p)
                /\ UNCHANGED screenshotQueue
  /\ emitted' = <<>>
  /\ lastOp' = Op("none", "none")
  /\ UNCHANGED <<functionVars, rev, mainWindow, config, aiClient, view, tokenVars,
                 recordVars, calls>>

\* A screenshot file is deleted behind the application's back.
fileDeleted(p) ==
  /\ fileState[p] # "absent"
  /\ fileState' = [fileState EXCEPT ![p] = "absent"]
  /\ emitted' = <<>>
  /\ lastOp' = Op("none", "none")
  /\ UNCHANGED <<functionVars, rev, mainWindow, config, aiClient, view, screenshotQueue,
                 extraScreenshotQueue, tokenVars, recordVars, calls>>

\* The application returns to the capture queue: deps.setView("queue").
setViewQueue ==
  /\ view = "solutions"
  /\ view' = "queue"
  /\ emitted' = <<>>
  /\ lastOp' = Op("none", "none")
  /\ UNCHANGED <<functionVars, rev, mainWindow, config, aiClient, queueVars, tokenVars,
                 recordVars, calls>>

\* The main window is created, destroyed, and dropped.
windowChange ==
  /\ Idle
  /\ mainWindow' = CASE mainWindow = "none" -> "live"
                     [] mainWindow = "live" -> "destroyed"
                     [] mainWindow = "destroyed" -> "none"
  /\ emitted' = <<>>
  /\ lastOp' = Op("none", "none")
  /\ UNCHANGED <<functionVars, rev, config, aiClient, view, queueVars, tokenVars,
                 recordVars, calls>>

\* A new invocation takes the lowest free slot.
FreeSlot(c) == ~Pending(c) /\ \A d \in Calls : d < c => Pending(d)

Next ==
  \/ \E c \in Calls : FreeSlot(c) /\ processScreenshots(c)
  \/ \E c \in Calls : FreeSlot(c) /\ processFollowUp(c)
  \/ \E c \in Calls, loaded \in BOOLEAN : processScreenshotsHelper(c, loaded)
  \/ \E c \in Calls, loaded \in BOOLEAN : processExtraScreenshotsHelper(c, loaded)
  \/ \E c \in Calls, r \in Responses : solveResponse(c, r)
  \/ \E c \in Calls, r \in Responses : debugResponse(c, r)
  \/ cancelOngoingRequests
  \/ \E u \in Configs : updateConfig(u)
  \/ \E p \in Paths : takeScreenshot(p)
  \/ \E p \in Paths : fileDeleted(p)
  \/ setViewQueue
  \/ windowChange

Spec == Init /\ [][Next]_vars


\* ------------------------------------------- the catch blocks of the helpers
\* The pipeline with nothing going on: a state of Init.
pipelineAtRest ==
  /\ rev = "base"
  /\ mainWindow = "live"
  /\ config = [aiApiKey |-> "sk", aiEndpoint |-> "url"]
  /\ aiClient = initializeAIClients
  /\ view = "queue"
  /\ screenshotQueue = <<>>
  /\ extraScreenshotQueue = <<>>
  /\ fileState = [p \in Paths |-> "absent"]
  /\ currentProcessingAbortController = NoToken
  /\ currentExtraProcessingAbortController = NoToken
  /\ aborted = {}
  /\ problemInfo = NULL
  /\ hasDebugged = FALSE
  /\ debugState = NoFile
  /\ calls = [c \in Calls |-> Free]
  /\ emitted = <<>>
  /\ lastOp = Op("none", "none")
pipelineVars ==
  <<rev, mainWindow, config, aiClient, view, queueVars, tokenVars, recordVars,
    calls, emitted, lastOp>>

\* The HTTP statuses explored (0: the error carries no status).
MaxStatus == 600
Statuses == {0} \cup 400..MaxStatus
\* error.message of the error thrown by the upstream call.
Messages == {"", "Connection error.", "upstream message"}
UpstreamErrors ==
  {[ok |-> FALSE, code |-> "", status |-> s, message |-> m] :
     s \in Statuses, m \in Messages}

\* The catch block of processScreenshotsHelper returns its result.
catchSolveError ==
  /\ result = NoResult
  /\ result' = [mode |-> "initial", success |-> FALSE,
                error |-> errorMessage(upstreamError)]
  /\ UNCHANGED <<pipelineVars, upstreamError, parseVars, helperVars, pageVars>>

\* The catch block of processExtraScreenshotsHelper returns its result.
catchDebugError ==
  /\ result = NoResult
  /\ result' = [mode |-> "debug", success |-> FALSE,
                error |-> debugErrorMessage(upstreamError)]
  /\ UNCHANGED <<pipelineVars, upstreamError, parseVars, helperVars, pageVars>>

InitErrors ==
  /\ pipelineAtRest
  /\ upstreamError \in UpstreamErrors
  /\ result = NoResult
  /\ parseAtRest
  /\ pagesAtRest
  /\ helperAtRest
NextErrors == catchSolveError \/ catchDebugError
SpecErrors == InitErrors /\ [][NextErrors]_vars


\* ---------------------------------------------- the parsing of the reply
\* Texts are sequences of tokens: a character, or a fixed string of the
\* source taken as one token.
MaxText == 2
MaxItems == 1
MaxLines == 2
Fence == "fence"                      \* a line of three backquotes
Word == {"a", "markdown"}             \* \w
Blank == {" ", "\n"}                  \* \s
Chars == {"a", " ", "\n"}
SeqsUpTo(S, n) == UNION {[1..k -> S] : k \in 0..n}
Texts == SeqsUpTo(Chars, MaxText)

RECURSIVE trimStart(_, _)
trimStart(s, S) ==
  IF s # <<>> /\ Head(s) \in S THEN trimStart(Tail(s), S) ELSE s
RECURSIVE trimEnd(_)
trimEnd(s) ==
  IF s # <<>> /\ s[Len(s)] \in Blank
  THEN trimEnd(SubSeq(s, 1, Len(s) - 1))
  ELSE s
\* String.prototype.trim
trim(s) == trimEnd(trimStart(s, Blank))

\* The code section of a reply: whether the marker pair is there, and inside
\* it an opening fence with an optional language word, a line break, the
\* body, and the closing fence; or the body alone.
Tags == {<<>>, <<"a">>, <<"markdown">>}
CodeSections ==
  {[marked |-> m, fenced |-> f, tag |-> t, body |-> b] :
     m \in BOOLEAN, f \in BOOLEAN, t \in Tags, b \in Texts}
  \ {c \in [marked : BOOLEAN, fenced : {FALSE}, tag : Tags, body : Texts] :
       c.tag # <<>>}
\* The text between the markers.
codeBlock(c) ==
  IF c.fenced
  THEN <<Fence>> \o c.tag \o <<"\n">> \o c.body \o <<Fence>>
  ELSE c.body

\* block.match(/```(?:\w+)?\s*([\s\S]*?)```/) and, in the design variant,
\* block.match(/```(?:markdown)?\s*([\s\S]*?)```/): group 1, or no match.
fences(s) == {i \in 1..Len(s) : s[i] = Fence}
innerCodeMatch(v, s) ==
  IF Cardinality(fences(s)) < 2
  THEN [matched |-> FALSE, group |-> <<>>]
  ELSE LET i == CHOOSE k \in fences(s) : \A j \in fences(s) : k <= j
           j == CHOOSE k \in fences(s) \ {i} :
                  \A l \in fences(s) \ {i} : k <= l
           inner == SubSeq(s, i + 1, j - 1)
           afterTag ==
             IF v = "design"
             THEN IF inner # <<>> /\ Head(inner) = "markdown"
                  THEN Tail(inner) ELSE inner
             ELSE trimStart(inner, Word)
       IN  [matched |-> TRUE, group |-> trimStart(afterTag, Blank)]

\* The placeholder of the design variant.
NoDesign == <<"// No design document returned. Please retry.">>
\* let code = ""; ... code = innerCodeMatch ? innerCodeMatch[1].trim()
\*                                          : codeMatch[1].trim()
codeOf(v, c) ==
  LET inner == innerCodeMatch(v, codeBlock(c))
      code == IF ~c.marked THEN <<>>
              ELSE IF inner.matched THEN trim(inner.group)
              ELSE trim(codeBlock(c))
  IN  IF v = "design" /\ code = <<>> THEN NoDesign ELSE code

\* The thoughts section: the text between the markers is not JSON
\* ("malformed", with its text), the JSON null, or a JSON object whose fields
\* are arrays of strings or something else (absent fields included).
Items == {<<"x">>}
Lists == SeqsUpTo(Items, MaxItems)
NotArray == [isArray |-> FALSE, items |-> <<>>]
Fields == {NotArray} \cup {[isArray |-> TRUE, items |-> l] : l \in Lists}
Walkthroughs == {<<>>, <<"w">>}
Unmarked ==
  [marked |-> FALSE, kind |-> "malformed", text |-> <<>>,
   questions_to_ask |-> NotArray, solution_approaches |-> NotArray,
   walkthrough |-> <<>>, edge_cases |-> NotArray]
ThoughtsSections ==
  {Unmarked}
  \cup {[Unmarked EXCEPT !.marked = TRUE, !.text = t] :
          t \in {<<>>, <<"a">>, <<" ", "a">>}}
  \cup {[Unmarked EXCEPT !.marked = TRUE, !.kind = "null",
                         !.text = <<"null">>]}
  \cup {[marked |-> TRUE, kind |-> "object", text |-> <<"{..}">>,
         questions_to_ask |-> q, solution_approaches |-> a,
         walkthrough |-> w, edge_cases |-> e] :
          q \in Fields, a \in Fields, w \in Walkthroughs, e \in Fields}

RECURSIVE tagged(_, _)
\* list.forEach(item => thoughts.push(`[${name}] ${item}`))
tagged(name, list) ==
  IF list = <<>> THEN <<>>
  ELSE <<(<<name>> \o Head(list))>> \o tagged(name, Tail(list))
\* if (field && Array.isArray(field)) field.forEach(...)
section(name, field) ==
  IF field.isArray THEN tagged(name, field.items) ELSE <<>>

DefaultThoughts == <<(<<"Solution approach based on efficiency and readability">>)>>
orDefault_Empty(thoughts) == thoughts
\* thoughts.length > 0 ? thoughts : [...]
orDefault(thoughts) == IF thoughts = <<>> THEN DefaultThoughts ELSE thoughts

\* The thoughts pushed for the section: JSON.parse throws on a text that is
\* not JSON, reading a field of null throws too, and the catch block pushes
\* the trimmed text under one tag.
thoughtsOf(v, t) ==
  IF ~t.marked THEN <<>>
  ELSE IF t.kind = "object"
  THEN section("[QUESTIONS TO ASK] ", t.questions_to_ask)
       \o section("[SOLUTION APPROACHES] ", t.solution_approaches)
       \o (IF t.walkthrough # <<>>
           THEN <<(<<"[WALKTHROUGH] ">> \o t.walkthrough)>> ELSE <<>>)
       \o (IF v = "base"
           THEN section("[EDGE CASES] ", t.edge_cases) ELSE <<>>)
  ELSE <<(<<"[SOLUTION APPROACHES] ">> \o trim(t.text))>>

\* The complexity section: its lines, each a label and the text after it.
Values == {<<>>, <<"O(1)">>}
Lines == [label : {"time", "space"}, value : Values]
ComplexitySections ==
  {[marked |-> FALSE, lines |-> <<>>]}
  \cup {[marked |-> TRUE, lines |-> l] : l \in SeqsUpTo(Lines, MaxLines)}
lineText(l) ==
  <<(IF l.label = "time" THEN "Time complexity:" ELSE "Space complexity:")>>
  \o l.value
\* block.match(/Time complexity:?\s*([^\n]+)/i), the same for Space: group 1
\* trimmed.  \s* runs over line breaks, so a label with nothing after it
\* on its line captures the line that follows.
complexityMatch(label, lines) ==
  LET at == {i \in 1..Len(lines) : lines[i].label = label}
  IN  IF at = {} THEN <<>>
      ELSE LET i == CHOOSE k \in at : \A j \in at : k <= j
           IN  IF lines[i].value # <<>> THEN lines[i].value
               ELSE IF i < Len(lines) THEN lineText(lines[i + 1])
               ELSE <<>>
LinearTime == <<"O(n) - Linear time complexity">>
LinearSpace == <<"O(n) - Linear space complexity">>
\* if (!timeComplexity) timeComplexity = "O(n) - Linear time complexity"
complexityOf(label, c) ==
  LET found == IF c.marked THEN complexityMatch(label, c.lines) ELSE <<>>
  IN  IF found # <<>> THEN found
      ELSE IF label = "time" THEN LinearTime ELSE LinearSpace

Variants == {"base", "chain", "design"}
ResponseTexts ==
  [code : CodeSections, thoughts : ThoughtsSections,
   complexity : ComplexitySections]

\* What processScreenshotsHelper returns for a reply: the base and the design
\* variant build the record only when there is a window.
solutionOf(v, text) ==
  IF v # "chain" /\ mainWindow = "none"
  THEN [variant |-> v, success |-> FALSE]
  ELSE IF v = "design"
  THEN [variant |-> v, success |-> TRUE, code |-> codeOf(v, text.code)]
  ELSE [variant |-> v, success |-> TRUE,
        code |-> codeOf(v, text.code),
        thoughts |-> orDefault(thoughtsOf(v, text.thoughts)),
        time_complexity |-> complexityOf("time", text.complexity),
        space_complexity |-> complexityOf("space", text.complexity)]

\* The part of processScreenshotsHelper that follows the upstream call.
parseSolution(v) ==
  /\ solutionData = NoSolution
  /\ solutionData' = solutionOf(v, responseText)
  /\ UNCHANGED <<pipelineVars, errorVars, responseText, helperVars, pageVars>>

InitParse ==
  /\ pipelineAtRest
  /\ errorsAtRest
  /\ responseText \in ResponseTexts
  /\ solutionData = NoSolution
  /\ helperAtRest
  /\ pagesAtRest
NextParse == \E v \in Variants : parseSolution(v)
SpecParse == InitParse /\ [][NextParse]_vars


\* ------------------------------------------------ the file-based ConfigHelper
\* Opacities are counted in tenths: 0.1 is 1, 1.0 is 10.
MinOpacity == 1
FullOpacity == 10
MaxOpacity == 15
Opacities == {0, 5, MaxOpacity}
Keys == {"aiApiKey", "aiEndpoint", "aiModel", "language", "opacity"}
defaultConfig ==
  [aiApiKey |-> "", aiEndpoint |-> "https://api.openai.com/v1",
   aiModel |-> "gpt-4o", language |-> "python", opacity |-> FullOpacity]
\* The values a caller may hand in for a Config.
ConfigValues ==
  [aiApiKey : {"", "sk"}, aiEndpoint : {"https://api.openai.com/v1", "url"},
   aiModel : {"gpt-4o", "model"}, language : {"python", "go"},
   opacity : Opacities]
\* Partial<Config>: some of the fields of a Config.
Partial(configs) ==
  {[k \in D |-> c[k]] : D \in SUBSET Keys, c \in configs}

\* The file at configPath: absent; a text that JSON.parse rejects; the JSON
\* null; or a JSON object with some fields.
Absent == [kind |-> "absent", data |-> <<>>]
Malformed_File == [kind |-> "malformed", data |-> <<>>]
Null_File == [kind |-> "null", data |-> <<>>]
\* fs.writeFileSync(configPath, JSON.stringify(config, null, 2))
writeFileSync(c) == [kind |-> "object", data |-> c]

\* saveConfig: the file it leaves.  written: whether fs.writeFileSync went
\* through; when it throws the error is logged and the file stays as it was.
saveConfigFile(file, c, written) == IF written THEN writeFileSync(c) ELSE file

\* { ...a, ...b }
spread(a, b) == b @@ a

loadConfigFile_Raw(file) == IF file.kind = "object" THEN file.data ELSE <<>>
\* loadConfig: the value it returns.
loadConfigFile(file) ==
  IF file.kind = "object" THEN spread(defaultConfig, file.data)
  ELSE IF file.kind = "null" THEN spread(defaultConfig, <<>>)
  ELSE defaultConfig
\* loadConfig: the file it leaves (a missing file is written with defaults).
fileAfterLoad(file, written) ==
  IF file.kind = "absent" THEN saveConfigFile(file, defaultConfig, written)
  ELSE file

Returned(op, value) == [op |-> op, threw |-> FALSE, value |-> value]

LoadConfig(written) ==
  /\ returned' = Returned("loadConfig", loadConfigFile(configFile))
  /\ configFile' = fileAfterLoad(configFile, written)
  /\ UNCHANGED <<pipelineVars, errorVars, parseVars, pageVars>>

SaveConfig(c, written) ==
  /\ configFile' = saveConfigFile(configFile, c, written)
  /\ returned' = Returned("saveConfig", <<>>)
  /\ UNCHANGED <<pipelineVars, errorVars, parseVars, pageVars>>

\* updateConfig: loadConfig, the spread of the updates over it, saveConfig.
newConfig(file, updates) == spread(loadConfigFile(file), updates)
UpdateConfig(updates, loadWritten, written) ==
  /\ configFile' = saveConfigFile(fileAfterLoad(configFile, loadWritten),
                                  newConfig(configFile, updates), written)
  /\ returned' = Returned("updateConfig", newConfig(configFile, updates))
  /\ UNCHANGED <<pipelineVars, errorVars, parseVars, pageVars>>

Min(a, b) == IF a < b THEN a ELSE b
Max(a, b) == IF a > b THEN a ELSE b
\* Math.min(1.0, Math.max(0.1, opacity))
validOpacity(opacity) == Min(FullOpacity, Max(MinOpacity, opacity))
SetOpacity(opacity, loadWritten, written) ==
  LET updates == [k \in {"opacity"} |-> validOpacity(opacity)]
  IN  /\ configFile' = saveConfigFile(fileAfterLoad(configFile, loadWritten),
                                      newConfig(configFile, updates), written)
      /\ returned' = Returned("setOpacity", <<>>)
      /\ UNCHANGED <<pipelineVars, errorVars, parseVars, pageVars>>

\* getOpacity: config.opacity !== undefined ? config.opacity : 1.0
GetOpacity(written) ==
  LET c == loadConfigFile(configFile)
  IN  /\ returned' =
           Returned("getOpacity",
                    [k \in {"opacity"} |->
                       IF "opacity" \in DOMAIN c THEN c.opacity
                       ELSE FullOpacity])
      /\ configFile' = fileAfterLoad(configFile, written)
      /\ UNCHANGED <<pipelineVars, errorVars, parseVars, pageVars>>

\* The user removes the file.
unlink ==
  /\ configFile.kind # "absent"
  /\ configFile' = Absent
  /\ returned' = Returned("none", <<>>)
  /\ UNCHANGED <<pipelineVars, errorVars, parseVars, pageVars>>

\* The files found at construction: what an earlier version or the user left
\* there, with an opacity within range if any; ensureConfigExists has
\* written the defaults where there was no file.
StoredConfigs == {c \in ConfigValues : c.opacity \in MinOpacity..FullOpacity}
InitConfig ==
  /\ pipelineAtRest
  /\ errorsAtRest
  /\ parseAtRest
  /\ pagesAtRest
  /\ configFile \in
       {Malformed_File, Null_File, writeFileSync(defaultConfig)}
       \cup {writeFileSync(c) : c \in Partial(StoredConfigs)}
  /\ returned = Returned("none", <<>>)
NextConfig ==
  \/ \E written \in BOOLEAN : LoadConfig(written)
  \/ \E c \in ConfigValues, written \in BOOLEAN : SaveConfig(c, written)
  \/ \E updates \in Partial(ConfigValues), loadWritten, written \in BOOLEAN :
       UpdateConfig(updates, loadWritten, written)
  \/ \E opacity \in Opacities, loadWritten, written \in BOOLEAN :
       SetOpacity(opacity, loadWritten, written)
  \/ \E written \in BOOLEAN : GetOpacity(written)
  \/ unlink
SpecConfig == InitConfig /\ [][NextConfig]_vars


\* ------------------------------------------------ the screenshot queue manager
\* The manager on its own, with room for more than one entry.
QueueCap == MaxQueue + 1
QueuePaths == 1..(QueueCap + 2)
Queues == {"primary", "auxiliary"}
queueOf(which) ==
  IF which = "primary" THEN screenshotQueue ELSE extraScreenshotQueue

\* Nothing but the queues, their files and the record of the step changes.
queueFrame ==
  UNCHANGED <<functionVars, rev, mainWindow, config, aiClient, view, tokenVars,
              recordVars, calls, emitted>>

\* push(path): a fresh capture is appended to one of the queues.
pushScreenshot(which, p) ==
  /\ ~Referenced(p)
  /\ fileState[p] = "absent"
  /\ fileState' = [q \in QueuePaths |->
                     IF q = p THEN "ok"
                     ELSE IF q \in evictedFrom(queueOf(which), QueueCap)
                     THEN "absent"
                     ELSE fileState[q]]
  /\ IF which = "primary"
     THEN /\ screenshotQueue' = pushTo(screenshotQueue, p, QueueCap)
          /\ UNCHANGED extraScreenshotQueue
     ELSE /\ extraScreenshotQueue' = pushTo(extraScreenshotQueue, p, QueueCap)
          /\ UNCHANGED screenshotQueue
  /\ lastOp' = OpReply("push", which,
                       IF evictedFrom(queueOf(which), QueueCap) = {}
                       THEN "" ELSE "evicted")
  /\ queueFrame

without(queue, p) == SelectSeq(queue, LAMBDA q : q # p)
\* delete(path): the entry leaves its queue and its backing file is deleted.
deleteScreenshot(p) ==
  /\ Referenced(p)
  /\ screenshotQueue' = without(screenshotQueue, p)
  /\ extraScreenshotQueue' = without(extraScreenshotQueue, p)
  /\ fileState' = [fileState EXCEPT ![p] = "absent"]
  /\ lastOp' = Op("delete", "none")
  /\ queueFrame

\* clear(queue): all entries and their backing files are removed.
clearQueue(which) ==
  /\ fileState' = [q \in QueuePaths |->
                     IF InSeq(q, queueOf(which)) THEN "absent"
                     ELSE fileState[q]]
  /\ IF which = "primary"
     THEN screenshotQueue' = <<>> /\ UNCHANGED extraScreenshotQueue
     ELSE extraScreenshotQueue' = <<>> /\ UNCHANGED screenshotQueue
  /\ lastOp' = Op("clear", which)
  /\ queueFrame

InitQueue ==
  /\ rev = "base"
  /\ mainWindow = "live"
  /\ config = [aiApiKey |-> "sk", aiEndpoint |-> "url"]
  /\ aiClient = initializeAIClients
  /\ view = "queue"
  /\ screenshotQueue = <<>>
  /\ extraScreenshotQueue = <<>>
  /\ fileState = [p \in QueuePaths |-> "absent"]
  /\ currentProcessingAbortController = NoToken
  /\ currentExtraProcessingAbortController = NoToken
  /\ aborted = {}
  /\ problemInfo = NULL
  /\ hasDebugged = FALSE
  /\ debugState = NoFile
  /\ calls = [c \in Calls |-> Free]
  /\ emitted = <<>>
  /\ lastOp = Op("none", "none")
  /\ errorsAtRest
  /\ parseAtRest
  /\ pagesAtRest
  /\ helperAtRest
NextQueue ==
  \/ \E which \in Queues, p \in QueuePaths : pushScreenshot(which, p)
  \/ \E p \in QueuePaths : deleteScreenshot(p)
  \/ \E which \in Queues : clearQueue(which)
SpecQueue == InitQueue /\ [][NextQueue]_vars


\* ------------------------------------------------------- the local pages
\* Folder names are words over two letters, 1 standing for "a" and 2 for "b".
MaxFolders == 3
Letters == {1, 2}
Names == {<<a>> : a \in Letters} \cup {<<a, b>> : a \in Letters, b \in Letters}

RECURSIVE lexLess(_, _)
\* Ascending lexicographic order of folder names.
lexLess(a, b) ==
  IF a = <<>> THEN b # <<>>
  ELSE IF b = <<>> THEN FALSE
  ELSE IF Head(a) < Head(b) THEN TRUE
  ELSE IF Head(a) > Head(b) THEN FALSE
  ELSE lexLess(Tail(a), Tail(b))

\* The subfolders of the root in the order the enumeration yields them, each
\* with or without its content.txt; the root itself may be missing.
Folders == [name : Names, hasContent : BOOLEAN]
Distinct(fs) == \A i, j \in 1..Len(fs) : fs[i].name = fs[j].name => i = j
Directories ==
  [exists : BOOLEAN,
   entries : {fs \in SeqsUpTo(Folders, MaxFolders) : Distinct(fs)}]

\* The page record of a folder.
Page(f) == [name |-> f.name]
RECURSIVE withContent(_)
\* Folders without content.txt are skipped.
withContent(fs) ==
  IF fs = <<>> THEN <<>>
  ELSE IF Head(fs).hasContent THEN <<Page(Head(fs))>> \o withContent(Tail(fs))
  ELSE withContent(Tail(fs))
RECURSIVE insert(_, _)
insert(p, sorted) ==
  IF sorted = <<>> THEN <<p>>
  ELSE IF lexLess(p.name, Head(sorted).name) THEN <<p>> \o sorted
  ELSE <<Head(sorted)>> \o insert(p, Tail(sorted))
RECURSIVE sortByName(_)
sortByName_Unsorted(ps) == ps
\* Sorted by folder name, ascending.
sortByName(ps) ==
  IF ps = <<>> THEN <<>> ELSE insert(Head(ps), sortByName(Tail(ps)))
\* loadAll(rootDir): the ordered page records.
loadAll(dir) == sortByName(withContent(dir.entries))

\* The viewer is past its loading and error screens and shows a page.
Rendered == ~loading /\ pagesError = NULL /\ pages # <<>>

\* await window.electronAPI.getLocalPages() returns; loadPages stores the
\* pages, or the error when the root is missing.
getLocalPages ==
  /\ loading
  /\ IF directory.exists
     THEN pages' = loadAll(directory) /\ pagesError' = NULL
     ELSE pagesError' = "Failed to load pages" /\ UNCHANGED pages
  /\ loading' = FALSE
  /\ UNCHANGED <<pipelineVars, errorVars, parseVars, helperVars, directory,
                 currentPageIndex, listenerLength>>

\* The effect with dependency [pages.length] runs again after a render with a
\* new length: the listener is replaced by one holding the new length.
subscribe ==
  /\ listenerLength # Len(pages)
  /\ listenerLength' = Len(pages)
  /\ UNCHANGED <<pipelineVars, errorVars, parseVars, helperVars, directory,
                 pages, currentPageIndex, loading, pagesError>>

Directions == {"prev", "next"}
\* (prev) => Math.max(0, prev - 1) and (prev) => Math.min(length - 1, prev + 1)
navigated(direction, length) ==
  IF direction = "prev"
  THEN Max(0, currentPageIndex - 1)
  ELSE Min(length - 1, currentPageIndex + 1)

\* A navigate-page event reaches the listener registered last.
onNavigatePage(direction) ==
  /\ currentPageIndex' = navigated(direction, listenerLength)
  /\ UNCHANGED <<pipelineVars, errorVars, parseVars, helperVars, directory,
                 pages, loading, pagesError, listenerLength>>

\* A click on the Prev or the Next button of the rendered page.
onClick(direction) ==
  /\ Rendered
  /\ currentPageIndex \in 0..(Len(pages) - 1)
  /\ IF direction = "prev"
     THEN currentPageIndex # 0
     ELSE currentPageIndex # Len(pages) - 1
  /\ currentPageIndex' = navigated(direction, Len(pages))
  /\ UNCHANGED <<pipelineVars, errorVars, parseVars, helperVars, directory,
                 pages, loading, pagesError, listenerLength>>

\* The viewer has mounted: loadPages is awaiting the pages and the listener
\* of the first render is registered.
InitPages ==
  /\ pipelineAtRest
  /\ errorsAtRest
  /\ parseAtRest
  /\ helperAtRest
  /\ directory \in Directories
  /\ pages = <<>>
  /\ currentPageIndex = 0
  /\ loading = TRUE
  /\ pagesError = NULL
  /\ listenerLength = 0
NextPages ==
  \/ getLocalPages
  \/ subscribe
  \/ \E direction \in Directions : onNavigatePage(direction)
  \/ \E direction \in Directions : onClick(direction)
SpecPages == InitPages /\ [][NextPages]_vars


\* ------------------------------------------------ the pipeline, scheduled
\* The continuation after `await` runs once the awaited promise has
\* settled: the reads of the screenshot files always settle, and the
\* upstream call settles when the network answers or the request fails.
awaitsSettle(c) ==
  /\ WF_vars(\E loaded \in BOOLEAN : processScreenshotsHelper(c, loaded))
  /\ WF_vars(\E loaded \in BOOLEAN : processExtraScreenshotsHelper(c, loaded))
  /\ WF_vars(\E r \in Responses : solveResponse(c, r))
  /\ WF_vars(\E r \in Responses : debugResponse(c, r))

SpecLive == Init /\ [][Next]_vars /\ \A c \in Calls : awaitsSettle(c)


\* ============================================================ properties
Events(seq) == {seq[i] : i \in 1..Len(seq)}

\* The mode of the invocation in slot c: each mode has its own controller.
Mode(c) == IF calls[c].kind = "initial" THEN "primary" ELSE "debug"
Controller(m) ==
  IF m = "primary" THEN currentProcessingAbortController
  ELSE currentExtraProcessingAbortController

\* A call is in flight while its invocation is pending and has not been
\* cancelled.
InFlight(c) == Pending(c) /\ c \notin aborted
InFlightOf(m) == {c \in Calls : InFlight(c) /\ Mode(c) = m}

\* The invocation in slot c ends in this step.
Ends(c) == Pending(c) /\ calls'[c].pc = "free"
CancelStep == lastOp'.op = "cancelOngoingRequests"

\* C1: once cancel() has fired the token of a pending call, the end of that
\* call emits no success event, does not switch the view to 'solutions',
\* and writes neither the stored record nor the has-debugged flag.
C1_CancelledResponseIgnored ==
  [][\A c \in Calls :
       (Ends(c) /\ c \in aborted) =>
         /\ Events(emitted') \cap {"solution-success", "debug-success"} = {}
         /\ (view' = "solutions" => view = "solutions")
         /\ problemInfo' = problemInfo
         /\ debugState' = debugState
         /\ (hasDebugged' => hasDebugged)]_vars

\* The upstream call of the invocation in slot c is outstanding.
Outstanding(c) == calls[c].pc = "network" /\ c \notin aborted

\* C2: at most one primary-solve call and at most one debug/follow-up call
\* is outstanding.
C2_OneCallPerMode ==
  \A m \in {"primary", "debug"} :
    Cardinality({c \in Calls : Outstanding(c) /\ Mode(c) = m}) <= 1

\* C3: a mode's controller field is null when no call of the mode is in
\* flight, and otherwise holds the token of the call in flight.
C3_TokenTracksCall ==
  \A m \in {"primary", "debug"} :
    IF InFlightOf(m) = {} THEN Controller(m) = NoToken
    ELSE InFlightOf(m) = {Controller(m)}

\* C4: with a live main window, cancel() emits no-screenshots exactly once
\* when a call is in flight and nothing when none is.
C4_CancelNotifiesOnce ==
  [][(CancelStep /\ mainWindow = "live") =>
       emitted' = IF \E c \in Calls : InFlight(c)
                  THEN <<"no-screenshots">> ELSE <<>>]_vars

\* C5: after cancel() both controller fields are null, the stored record is
\* empty and has-debugged is false; a cancel() right after a cancel()
\* changes nothing and emits nothing.
Cleared ==
  /\ currentProcessingAbortController = NoToken
  /\ currentExtraProcessingAbortController = NoToken
  /\ problemInfo = NULL
  /\ ~hasPreviousSolution
  /\ ~hasDebugged
DebugHelperRuns(c) ==
  /\ calls[c].pc = "reading"
  /\ calls[c].kind \in {"debug", "followup"}
  /\ calls'[c] # calls[c]

\* A prior problem record exists: stored problem info, or an entry of the
\* persisted debug state.
PriorRecord == problemInfo # NULL \/ hasPreviousSolution

\* C6: without a prior problem record a debug or follow-up helper ends with
\* debug-error and sends no request, processFollowUp falls back to
\* processScreenshots, and every debug request sent carries a record.
C6_NoDebugWithoutRecord ==
  [][/\ \A c \in Calls :
          /\ (DebugHelperRuns(c) /\ ~PriorRecord) =>
               /\ calls'[c].pc = "free"
               /\ emitted'[Len(emitted')] = "debug-error"
          /\ (calls'[c].pc = "network" /\ calls'[c].kind \in {"debug", "followup"})
               => calls'[c].info # NULL
     /\ (lastOp'.op = "processFollowUp" /\ ~hasPreviousSolution) =>
          /\ lastOp'.outcome \in {"no-window", "api-key-invalid",
                                  "no-screenshots", "initial", "debug"}
          /\ \A c \in Calls :
               calls'[c].kind = "followup" => calls[c].kind = "followup"]_vars
C6_Witness ==
  /\ lastOp = Op("processExtraScreenshotsHelper", "no-problem-info")
  /\ emitted = <<"debug-error">>

\* C7: after a successful initial solve a record is stored, so that the
\* prior-record check of a debug call started next passes.
C7_SolveStoresRecord ==
  (lastOp.op = "solveResponse" /\ lastOp.outcome = "success") => hasProblemInfo

\* A follow-up call in slot c ends with success in this step.
FollowUpSucceeds(c) ==
  /\ Ends(c)
  /\ calls[c].kind = "followup"
  /\ lastOp'.op = "debugResponse"
  /\ lastOp'.outcome = "success"
SolveSucceeds == lastOp'.op = "solveResponse" /\ lastOp'.outcome = "success"
Appended ==
  /\ Len(debugState'.entries) = Len(debugState.entries) + 1
  /\ SubSeq(debugState'.entries, 1, Len(debugState.entries)) = debugState.entries

ProcessScreenshotsRuns ==
  \/ lastOp'.op = "processScreenshots"
  \/ lastOp'.op = "processFollowUp" /\ followUpOutcome = "fallback"
NoRequestNoToken ==
  /\ calls' = calls
  /\ UNCHANGED tokenVars
  /\ view' = view

\* C9 as stated: with an empty API key processScreenshots reports
\* api-key-invalid, starts no call, creates no token, keeps the view.
C9_KeyMissingReported ==
  [][(lastOp'.op = "processScreenshots" /\ config.aiApiKey = "") =>
       /\ emitted' = <<"api-key-invalid">>
       /\ NoRequestNoToken]_vars

\* C9 amended: the same, given that a main window exists.
C9_KeyMissingReportedToWindow ==
  [][(lastOp'.op = "processScreenshots" /\ config.aiApiKey = ""
        /\ mainWindow # "none") =>
       /\ emitted' = <<"api-key-invalid">>
       /\ NoRequestNoToken]_vars
C9_Witness ==
  /\ lastOp = Op("processScreenshots", "api-key-invalid")
  /\ config.aiApiKey = ""
  /\ view = "solutions"

\* The queue the current view selects holds no path that exists on disk.
selectedQueue == IF view = "queue" THEN screenshotQueue ELSE extraScreenshotQueue
NoExistingPath == \A i \in 1..Len(selectedQueue) : ~existsSync(selectedQueue[i])
ReportsNoScreenshots ==
  /\ emitted' # <<>>
  /\ emitted'[Len(emitted')] = "no-screenshots"
  /\ NoRequestNoToken
  /\ UNCHANGED <<screenshotQueue, extraScreenshotQueue>>

\* C10 as stated: when no path of the selected queue exists,
\* processScreenshots reports no-screenshots, starts no call, creates no
\* token and leaves the view and both queues unchanged.
C10_NoValidInputReported ==
  [][(ProcessScreenshotsRuns /\ NoExistingPath) => ReportsNoScreenshots]_vars

\* C10 amended: the same, given that a main window exists and the AI client
\* is configured.
C10_NoValidInputReportedWhenConfigured ==
  [][(ProcessScreenshotsRuns /\ NoExistingPath
        /\ mainWindow # "none" /\ verifiedClient) => ReportsNoScreenshots]_vars
C10_Witness ==
  /\ lastOp = Op("processScreenshots", "no-screenshots")
  /\ selectedQueue # <<>>
  /\ view = "solutions"

\* The step ends an invocation because none of its screenshots could be
\* read (`validScreenshots.length === 0`).
NoneReadable == lastOp'.outcome = "threw"

\* C11: when no screenshot of an invocation can be read, the invocation
\* ends as it does when no path exists: it reports no-screenshots, sends no
\* request and leaves the view as it is.
C11_UnreadableIsNoValidInput ==
  [][NoneReadable =>
       /\ Events(emitted') = {"no-screenshots"}
       /\ \A c \in Calls : Ends(c) \/ calls'[c] = calls[c]
       /\ view' = view]_vars

\* The outcome the failure taxonomy assigns to an HTTP status.
ExpectedOutcome(s) ==
  CASE s = 401 -> "Unauthorized"
    [] s = 429 -> "RateLimited"
    [] s \in 500..599 -> "UpstreamServerError"
    [] OTHER -> "Unknown"
\* The outcome a result's error message stands for.
ReportedOutcome(error) ==
  CASE error = "Invalid API key. Please check your settings." -> "Unauthorized"
    [] error = "API rate limit exceeded or insufficient credits. Please try again later."
         -> "RateLimited"
    [] error = "Server error. Please try again later." -> "UpstreamServerError"
    [] OTHER -> "Unknown"

\* C12: in both modes a failed upstream call is reported as Unauthorized for
\* status 401, RateLimited for 429, UpstreamServerError for 500..599, and
\* otherwise as Unknown with the upstream message.
C12_StatusMapped ==
  result # NoResult =>
    /\ ReportedOutcome(result.error) = ExpectedOutcome(upstreamError.status)
    /\ (ExpectedOutcome(upstreamError.status) = "Unknown"
          /\ upstreamError.message # "") => result.error = upstreamError.message

\* The step handles a failure of an invocation: a tagged {success: false}
\* result of a helper, or an exception caught by processScreenshots.
FailureStep == lastOp'.outcome \in {"failure", "threw", "no-problem-info"}
ErrorEventsOf(kind) ==
  IF kind = "initial" THEN {"initial-solution-error", "api-key-invalid"}
  ELSE {"debug-error"}

C14_ViewAfterSolve ==
  [][/\ \A c \in Calls :
          (Ends(c) /\ calls[c].kind = "initial") =>
            view' = IF SolveSucceeds THEN "solutions" ELSE "queue"
     /\ (view' = "solutions" /\ view # "solutions") => SolveSucceeds]_vars
C14_Witness ==
  /\ lastOp = Op("solveResponse", "failure")
  /\ view = "queue"
  /\ problemInfo = INFO

\* A reply has been parsed: solutionData holds what the helper returned.
Parsed == solutionData # NoSolution

\* C15: for every reply with no code fence the initial solve reports success
\* and the record's code is the fixed, non-empty placeholder string.
C15_NoFenceYieldsPlaceholder ==
  (Parsed /\ ~responseText.code.fenced)
    => /\ solutionData.success
       /\ solutionData.code = NoDesign
       /\ NoDesign # <<>>

\* The lines of the complexity section that carry text under the label.
ownLines(label) ==
  LET c == responseText.complexity
  IN  {i \in 1..Len(c.lines) :
         c.lines[i].label = label /\ c.lines[i].value # <<>>}
\* The text on the first such line, or the linear default when there is none.
ownLineOrDefault(label) ==
  IF ownLines(label) # {}
  THEN LET i == CHOOSE k \in ownLines(label) : \A j \in ownLines(label) : k <= j
       IN  responseText.complexity.lines[i].value
  ELSE IF label = "time" THEN LinearTime ELSE LinearSpace

\* C16: in every successful record the time and the space complexity are
\* non-empty, each being the text on its own explicit line of the reply
\* when there is one and the linear default otherwise, whatever the other is.
C16_ComplexityFromOwnLineOrDefault ==
  (Parsed /\ solutionData.success /\ solutionData.variant # "design")
    => /\ solutionData.time_complexity # <<>>
       /\ solutionData.space_complexity # <<>>
       /\ solutionData.time_complexity = ownLineOrDefault("time")
       /\ solutionData.space_complexity = ownLineOrDefault("space")

\* The thoughts block of the reply is not a JSON object: JSON.parse or the
\* reading of its fields throws.
Malformed ==
  responseText.thoughts.marked /\ responseText.thoughts.kind # "object"

\* C17: whatever sections of the reply are present, absent or malformed, the
\* initial solve reports success, a thoughts block that is not valid JSON is
\* kept as flat text (one entry: its tag, then the text of the block), and
\* the thoughts of the record are never empty.
C17_DegradedReplyStillSucceeds ==
  Parsed =>
    /\ solutionData.success
    /\ solutionData.variant # "design" =>
         /\ solutionData.thoughts # <<>>
         /\ Malformed =>
              /\ Len(solutionData.thoughts) = 1
              /\ Tail(solutionData.thoughts[1]) = trim(responseText.thoughts.text)

\* The reply holds nothing but a thoughts block that is no JSON.
C17_Witness ==
  /\ Parsed
  /\ solutionData.variant = "base"
  /\ ~responseText.code.marked
  /\ ~responseText.complexity.marked
  /\ Malformed
  /\ responseText.thoughts.text = <<" ", "a">>
  /\ solutionData.success
  /\ solutionData.thoughts = <<(<<"[SOLUTION APPROACHES] ", "a">>)>>

\* The entries of the JSON thoughts object, field by field, as they stand.
jsonEntries(t) ==
  t.questions_to_ask.items \o t.solution_approaches.items
  \o (IF t.walkthrough # <<>> THEN <<t.walkthrough>> ELSE <<>>)
  \o t.edge_cases.items

\* C18: for a reply with a well-formed code fence and a well-formed JSON
\* thoughts block, the record's code is the fenced content verbatim and its
\* thoughts are exactly the entries of the JSON fields, in their order and
\* with no text added.
C18_RoundTrip ==
  (/\ Parsed
   /\ solutionData.variant # "design"
   /\ responseText.code.marked
   /\ responseText.code.fenced
   /\ responseText.thoughts.marked
   /\ responseText.thoughts.kind = "object")
    => /\ solutionData.code = responseText.code.body
       /\ solutionData.thoughts = jsonEntries(responseText.thoughts)

\* C19: after any sequence of setOpacity, updateConfig, saveConfig and
\* loadConfig the persisted opacity and the value getOpacity returns lie
\* within [0.1, 1.0].
C19_OpacityWithinRange ==
  /\ (configFile.kind = "object" /\ "opacity" \in DOMAIN configFile.data)
       => configFile.data.opacity \in MinOpacity..FullOpacity
  /\ returned.op = "getOpacity"
       => returned.value.opacity \in MinOpacity..FullOpacity

\* The last operation was loadConfig, and it returned normally.
Loaded == returned.op = "loadConfig" /\ ~returned.threw

\* C20: loadConfig never throws and returns a configuration with all five
\* fields: a field the file lacks takes its default, a field the file has
\* is kept, and a missing or unparseable file yields the default
\* configuration.
C20_LoadConfigTotal ==
  [][returned'.op = "loadConfig" =>
       /\ ~returned'.threw
       /\ DOMAIN returned'.value = Keys
       /\ \A k \in Keys :
            returned'.value[k] =
              IF configFile.kind = "object" /\ k \in DOMAIN configFile.data
              THEN configFile.data[k]
              ELSE defaultConfig[k]
       /\ configFile.kind \in {"absent", "malformed"}
            => returned'.value = defaultConfig]_vars

\* loadConfig has filled the fields missing from a partial file.
C20_Witness ==
  /\ Loaded
  /\ configFile.kind = "object"
  /\ DOMAIN configFile.data = {"aiApiKey", "opacity"}
  /\ returned.value = spread(defaultConfig, configFile.data)
  /\ returned.value # defaultConfig

\* C21: after any sequence of push, delete and clear operations each of the
\* two queues holds at most its capacity of entries.
C21_QueuesWithinCapacity ==
  /\ Len(screenshotQueue) <= QueueCap
  /\ Len(extraScreenshotQueue) <= QueueCap

\* A push onto the full primary queue has evicted its oldest entry.
C21_Witness ==
  /\ lastOp = OpReply("push", "primary", "evicted")
  /\ Len(screenshotQueue) = QueueCap
  /\ extraScreenshotQueue # <<>>

\* C22: a push onto a queue that holds its capacity removes exactly the oldest
\* entry and deletes its backing file: the list is the previous list without
\* its first element, followed by the new path; the other queue and all
\* other backing files are unchanged.
C22_PushEvictsOldest ==
  [][\A which \in Queues :
       (/\ lastOp'.op = "push"
        /\ lastOp'.outcome = which
        /\ Len(queueOf(which)) = QueueCap)
         => LET old == queueOf(which)
                new == IF which = "primary"
                       THEN screenshotQueue' ELSE extraScreenshotQueue'
                p == new[Len(new)]
            IN  /\ new = Tail(old) \o <<p>>
                /\ ~InSeq(p, old)
                /\ ~InSeq(Head(old), new)
                /\ fileState'[Head(old)] = "absent"
                /\ fileState'[p] = "ok"
                /\ IF which = "primary"
                   THEN UNCHANGED extraScreenshotQueue
                   ELSE UNCHANGED screenshotQueue
                /\ \A q \in QueuePaths \ {Head(old), p} :
                     fileState'[q] = fileState[q]]_vars

\* The auxiliary queue was full, and a push has evicted from it while the
\* primary queue holds entries.
C22_Witness ==
  /\ lastOp = OpReply("push", "auxiliary", "evicted")
  /\ Len(extraScreenshotQueue) = QueueCap
  /\ screenshotQueue # <<>>

\* The folder names of the directory that have a content.txt.
contentNames == {directory.entries[i].name :
                   i \in {j \in 1..Len(directory.entries) :
                            directory.entries[j].hasContent}}

\* C23: loadAll returns the page records in ascending lexicographic order of
\* folder name, whatever the order of the enumeration, and they are exactly
\* the subfolders that have a content.txt.
C23_LoadAllSorted ==
  (~loading /\ pagesError = NULL /\ directory # <<>>)
    => /\ \A i, j \in 1..Len(pages) :
            i < j => lexLess(pages[i].name, pages[j].name)
       /\ {pages[i].name : i \in 1..Len(pages)} = contentNames
       /\ Len(pages) = Cardinality(contentNames)

\* The enumeration yielded "b", "ab" (without content.txt), "a"; the pages
\* are "a", "b".
C23_Witness ==
  /\ ~loading
  /\ pagesError = NULL
  /\ directory # <<>>
  /\ directory.entries =
       <<[name |-> <<2>>, hasContent |-> TRUE],
         [name |-> <<1, 2>>, hasContent |-> FALSE],
         [name |-> <<1>>, hasContent |-> TRUE]>>
  /\ pages = <<[name |-> <<1>>], [name |-> <<2>>]>>

\* C24: the page index always addresses an existing page: it is at least 0
\* and, when there are pages, at most pages.length - 1, so that
\* pages[currentPageIndex] is defined whenever a page is rendered.
C24_IndexAddressesPage ==
  /\ currentPageIndex >= 0
  /\ pages # <<>> => currentPageIndex <= Len(pages) - 1
  /\ Rendered => currentPageIndex + 1 \in DOMAIN pages

\* The terminal notifications of a run, by the kind of its invocation.
Terminals(kind) ==
  IF kind = "initial"
  THEN {"no-screenshots", "solution-success", "initial-solution-error",
        "api-key-invalid"}
  ELSE {"debug-success", "debug-error"}
\* How many of the events sent are among the given ones.
Count(seq, events) == Cardinality({i \in 1..Len(seq) : seq[i] \in events})

\* C25: an invocation that emits initial-start emits exactly one of
\* no-screenshots, solution-success, initial-solution-error, api-key-invalid,
\* and one that emits debug-start exactly one of debug-success, debug-error:
\* the step that ends an invocation sends exactly one terminal notification
\* of its kind, a run that ends in the step that sent initial-start sends
\* exactly one there, and the step that suspends an invocation sends none.
C25_OneTerminalPerRun ==
  [][/\ \A c \in Calls :
          Ends(c) => Count(emitted', Terminals(calls[c].kind)) = 1
     /\ ("initial-start" \in Events(emitted') /\ calls' = calls)
          => Count(emitted', Terminals("initial")) = 1
     /\ \A c \in Calls :
          (~Pending(c) /\ calls'[c].pc # "free")
            => Count(emitted', Terminals("initial") \cup Terminals("debug")) = 0
    ]_vars


C27_KeyFailuresReported ==
  [][/\ \A c \in Calls, r \in Failures :
          solveResponse(c, r) =>
            Events(emitted') \cap Terminals("initial") =
              IF r.status = 401 THEN {"api-key-invalid"}
              ELSE {"initial-solution-error"}
     /\ \A c \in Calls :
          (processScreenshotsHelper(c, TRUE) /\ lastOp'.outcome = "failure")
            => Events(emitted') \cap Terminals("initial") = {"api-key-invalid"}
    ]_vars


\* C28: a debug or follow-up invocation that fails changes nothing but the
\* notifications: its first step, its helper step and the step that ends it
\* with a failed result or an exception leave the view, the stored problem
\* info, the debug state, the has-debugged flag and both queues as they
\* were, and send only debug-start, processing-status and debug-error.
C28_FailedDebugLeavesState ==
  [][((\E c \in Calls :
          \/ ~Pending(c) /\ calls'[c].kind \in {"debug", "followup"}
          \/ \E loaded \in BOOLEAN : processExtraScreenshotsHelper(c, loaded)
          \/ \E r \in Failures : debugResponse(c, r)))
       => /\ UNCHANGED <<view, problemInfo, debugState, hasDebugged,
                         screenshotQueue, extraScreenshotQueue>>
          /\ Events(emitted') \subseteq
               {"debug-start", "processing-status", "debug-error"}
    ]_vars
\* A debug request over a solved problem has just failed upstream.
C28_Witness ==
  /\ lastOp = Op("debugResponse", "failure")
  /\ view = "solutions"
  /\ problemInfo # NULL
  /\ ~hasDebugged
  /\ extraScreenshotQueue # <<>>


C30_UpdateThenLoadRoundTrips ==
  /\ [](\A updates \in Partial(ConfigValues) :
          /\ \A k \in DOMAIN updates :
               newConfig(configFile, updates)[k] = updates[k]
          /\ \A k \in Keys \ DOMAIN updates :
               newConfig(configFile, updates)[k] = loadConfigFile(configFile)[k])
  /\ [][(returned.op = "updateConfig" /\ returned'.op = "loadConfig")
         => returned'.value = returned.value]_vars

====
